---- MODULE Spec2Model ----
(***************************************************************************)
(* A model of the candlestick downloader, src/src/candlestick_downloader.py: *)
(* DownloadConfig and CandlestickDownloader.download, download_with_config,  *)
(* _process_dataframe, save_to_csv and download_and_save.  The provider      *)
(* (yf.download), the clock and the file system are the environment.         *)
(***************************************************************************)
EXTENDS Integers, Sequences, FiniteSets, TLC

(***************************************************************************)
(* Bounds of the model.                                                    *)
(***************************************************************************)
MaxTickerLen == 3
MaxRows == 3
MaxDate == 2
MaxCalls == 2

(***************************************************************************)
(* Strings are sequences of characters.  str.strip / str.upper.            *)
(***************************************************************************)
TickerChars == {" ", "a", "A"}

Tickers == UNION {[1..n -> TickerChars] : n \in 0..MaxTickerLen}

IsSpace(c) == c = " "

CharUpper(c) == IF c = "a" THEN "A" ELSE c

Upper(s) == [i \in 1..Len(s) |-> CharUpper(s[i])]

RECURSIVE LStrip(_)
LStrip(s) == IF s # <<>> /\ IsSpace(Head(s)) THEN LStrip(Tail(s)) ELSE s

RECURSIVE RStrip(_)
RStrip(s) ==
    IF s # <<>> /\ IsSpace(s[Len(s)]) THEN RStrip(SubSeq(s, 1, Len(s) - 1)) ELSE s

Strip(s) == RStrip(LStrip(s))

(***************************************************************************)
(* Period and Interval values (the enums are str subclasses; the model     *)
(* passes the strings).                                                    *)
(***************************************************************************)
Periods == {"1d", "5d", "1mo", "3mo", "6mo", "1y", "2y", "5y", "10y", "ytd", "max"}

Intervals ==
    {"1m", "2m", "5m", "15m", "30m", "60m", "90m", "1h", "1d", "5d", "1wk", "1mo", "3mo"}

(***************************************************************************)
(* DownloadConfig(...): the dataclass and its __post_init__.  The value is *)
(* either the constructed configuration or the raised ValueError.          *)
(***************************************************************************)
NormalizeTicker_NoStrip(ticker) == Upper(ticker)

NormalizeTicker(ticker) == Upper(Strip(ticker))

TickerRejected(normalized) == normalized = <<>>

DownloadConfig(ticker, period, interval, auto_adjust) ==
    LET normalized == NormalizeTicker(ticker) IN
    IF TickerRejected(normalized)
    THEN [kind |-> "raise", error |-> "ValueError",
          message |-> "Ticker symbol cannot be empty"]
    ELSE [kind |-> "config", ticker |-> normalized, period |-> period,
          interval |-> interval, auto_adjust |-> auto_adjust, progress |-> FALSE]

(***************************************************************************)
(* Tables.  A raw provider table has a time index (with a name, or none)   *)
(* and the data columns; a cell is a number or NaN (NaT in the index).     *)
(* After reset_index a table is its column names and its rows, each row    *)
(* with its index label and its cells by column name.                      *)
(***************************************************************************)
NaN == 0 - 1

NoName == "<None>"

IndexNames == {"Date", "Datetime", "Timestamp", NoName}

DataColumns == <<"Open", "High", "Low", "Close", "Volume">>

Range(s) == {s[i] : i \in 1..Len(s)}

Dates == 1..MaxDate

MissingSets == {{}, {"Close"}}

RawRows ==
    {[idx |-> d, cells |-> [c \in Range(DataColumns) |-> IF c \in m THEN NaN ELSE 1]] :
        d \in Dates \cup {NaN}, m \in MissingSets}

RawTables ==
    {[kind |-> "table", index_name |-> n, rows |-> r] :
        n \in IndexNames, r \in UNION {[1..k -> RawRows] : k \in 0..MaxRows}}

ProviderError == [kind |-> "raise", error |-> "Exception", message |-> "Network error"]

ProviderOutcomes == RawTables \cup {ProviderError}

\* DataFrame.empty
Empty(df) == Len(df.rows) = 0

\* df.reset_index(): the index becomes the leading column, named after the
\* index, or "index" when the index has no name; the new index is 0..n-1.
reset_index(df) ==
    LET name == IF df.index_name = NoName THEN "index" ELSE df.index_name IN
    [kind |-> "table",
     columns |-> <<name>> \o DataColumns,
     rows |-> [i \in 1..Len(df.rows) |->
                  [label |-> i - 1,
                   cells |-> (name :> df.rows[i].idx) @@ df.rows[i].cells]]]

RenameCell(cells, old, new) ==
    [c \in (DOMAIN cells \ {old}) \cup {new} |->
        IF c = new THEN cells[old] ELSE cells[c]]

\* df.rename(columns={old: new})
rename(df, old, new) ==
    [df EXCEPT
        !.columns = [i \in 1..Len(df.columns) |->
                        IF df.columns[i] = old THEN new ELSE df.columns[i]],
        !.rows = [i \in 1..Len(df.rows) |->
                     [df.rows[i] EXCEPT !.cells = RenameCell(@, old, new)]]]

HasNaN(row) == \E c \in DOMAIN row.cells : row.cells[c] = NaN

KeepRow(row) == ~HasNaN(row)

\* df.dropna(): the rows without a missing value, labels kept
dropna(df) == [df EXCEPT !.rows = SelectSeq(@, KeepRow)]

\* the place of a row among rows already sorted by Date: after every row
\* whose Date is not greater
RECURSIVE InsertByDate(_, _)
InsertByDate(sorted, row) ==
    IF sorted = <<>> THEN <<row>>
    ELSE IF Head(sorted).cells["Date"] <= row.cells["Date"]
         THEN <<Head(sorted)>> \o InsertByDate(Tail(sorted), row)
         ELSE <<row>> \o sorted

RECURSIVE SortRows(_)
SortRows(rows) ==
    IF rows = <<>> THEN <<>>
    ELSE InsertByDate(SortRows(SubSeq(rows, 1, Len(rows) - 1)), rows[Len(rows)])

sort_values_unsorted(df) ==
    IF "Date" \notin Range(df.columns)
    THEN [kind |-> "raise", error |-> "KeyError", message |-> "Date"]
    ELSE df

\* df.sort_values('Date'): KeyError when there is no such column.  Rows with
\* equal Date and no NaN differ in their labels only, which the reindexing
\* that follows discards, so the order among ties is not observable.
sort_values(df) ==
    IF "Date" \notin Range(df.columns)
    THEN [kind |-> "raise", error |-> "KeyError", message |-> "Date"]
    ELSE [df EXCEPT !.rows = SortRows(@)]

\* df.reset_index(drop=True): labels 0..n-1 in row order
reset_index_drop(df) ==
    [df EXCEPT !.rows = [i \in 1..Len(@) |-> [@[i] EXCEPT !.label = i - 1]]]

\* CandlestickDownloader._process_dataframe
process_dataframe(df) ==
    LET d1 == reset_index(df)
        d2 == IF "Datetime" \in Range(d1.columns)
              THEN rename(d1, "Datetime", "Date") ELSE d1
        d3 == dropna(d2)
        d4 == sort_values(d3)
    IN  IF d4.kind = "raise" THEN d4 ELSE reset_index_drop(d4)

None == [kind |-> "none"]

\* what the try block of download_with_config does with the provider's
\* answer; a raised error stands for itself
download_try(outcome) ==
    IF outcome.kind = "raise" THEN outcome
    ELSE IF Empty(outcome) THEN None
    ELSE process_dataframe(outcome)

download_except_reraise(r) == r

\* except Exception: ... return None
download_except(r) == IF r.kind = "raise" THEN None ELSE r

\* the return value of download_with_config for a provider outcome
download_result(outcome) == download_except(download_try(outcome))

(***************************************************************************)
(* Paths and the file system.  A path is the sequence of its components,   *)
(* a component the sequence of the pieces of its name; an absolute path    *)
(* starts with Root.  Path('.') is the empty sequence.                     *)
(***************************************************************************)
Name(s) == <<s>>

Root == Name("/")

Dot == Name(".")

Cwd == <<Root, Name("work")>>

\* Path(filename): "." components are dropped ("./out.csv" is "out.csv")
RECURSIVE Path(_)
Path(filename) ==
    IF filename = <<>> THEN <<>>
    ELSE IF Head(filename) = Dot THEN Path(Tail(filename))
    ELSE <<Head(filename)>> \o Path(Tail(filename))

IsAbsolute(p) == p # <<>> /\ Head(p) = Root

\* PurePath.parent
Parent(p) ==
    IF p = <<>> \/ p = <<Root>> THEN p ELSE SubSeq(p, 1, Len(p) - 1)

\* a / b
Join(a, b) == IF IsAbsolute(b) THEN b ELSE a \o b

\* a path object is always true: PurePath defines neither __bool__ nor __len__
Truthy(p) == TRUE

Abs(p) == IF IsAbsolute(p) THEN p ELSE Cwd \o p

Prefixes(p) == {SubSeq(p, 1, n) : n \in 1..Len(p)}

\* Path.mkdir(parents=True, exist_ok=True) on the file system fs
mkdir(fs, p, io) ==
    IF io = "mkdir_error"
    THEN [kind |-> "raise", error |-> "PermissionError", fs |-> fs]
    ELSE IF Prefixes(Abs(p)) \cap fs.files # {}
    THEN [kind |-> "raise", error |-> "FileExistsError", fs |-> fs]
    ELSE [kind |-> "ok", fs |-> [fs EXCEPT !.dirs = @ \cup Prefixes(Abs(p))]]

\* DataFrame.to_csv(filepath, index=False): the file is opened for writing,
\* then written.  An error while writing leaves the file behind.
to_csv(fs, p, io) ==
    IF Abs(p) \in fs.dirs
    THEN [kind |-> "raise", error |-> "IsADirectoryError", fs |-> fs]
    ELSE IF Parent(Abs(p)) \notin fs.dirs
    THEN [kind |-> "raise", error |-> "OSError", fs |-> fs]
    ELSE IF io = "write_error"
    THEN [kind |-> "raise", error |-> "OSError",
          fs |-> [fs EXCEPT !.files = @ \cup {Abs(p)}]]
    ELSE [kind |-> "ok", fs |-> [fs EXCEPT !.files = @ \cup {Abs(p)}]]

IoOutcomes == {"ok", "mkdir_error", "write_error"}

Bool(b) == [kind |-> "bool", value |-> b]

NoPath == [kind |-> "none"]

resolve_always_default(default_output_dir, filename) ==
    Join(default_output_dir, Path(filename))

\* the path save_to_csv writes to
resolve(default_output_dir, filename) ==
    LET filepath == Path(filename) IN
    IF ~Truthy(Parent(filepath)) \/ Parent(filepath) = <<>>
    THEN Join(default_output_dir, filepath)
    ELSE filepath

\* the try block of save_to_csv: the value returned or the error raised,
\* the file system it leaves, and the path handed to to_csv (if it got
\* there) with whether to_csv completed
save_try(fs, default_output_dir, dataframe, filename, create_dir, io) ==
    LET filepath == resolve(default_output_dir, filename)
        made == IF create_dir THEN mkdir(fs, Parent(filepath), io)
                ELSE [kind |-> "ok", fs |-> fs]
        wrote == to_csv(made.fs, filepath, io)
    IN  IF made.kind = "raise"
        THEN [result |-> [kind |-> "raise", error |-> made.error], fs |-> made.fs,
              written |-> NoPath]
        ELSE IF wrote.kind = "raise"
        THEN [result |-> [kind |-> "raise", error |-> wrote.error], fs |-> wrote.fs,
              written |-> [kind |-> "path", path |-> filepath, complete |-> FALSE]]
        ELSE [result |-> Bool(TRUE), fs |-> wrote.fs,
              written |-> [kind |-> "path", path |-> filepath, complete |-> TRUE]]

save_except_reraise(r) == r

\* except Exception: ... return False
save_except(r) ==
    IF r.result.kind = "raise" THEN [r EXCEPT !.result = Bool(FALSE)] ELSE r

NoDataToSave_NoneOnly(dataframe) == dataframe.kind = "none"

\* if dataframe is None or dataframe.empty
NoDataToSave(dataframe) == dataframe.kind = "none" \/ Empty(dataframe)

\* CandlestickDownloader.save_to_csv
save_to_csv(fs, default_output_dir, dataframe, filename, create_dir, io) ==
    IF NoDataToSave(dataframe)
    THEN [result |-> Bool(FALSE), fs |-> fs, written |-> NoPath]
    ELSE save_except(save_try(fs, default_output_dir, dataframe, filename, create_dir, io))

\* datetime.now().strftime("%Y%m%d_%H%M%S") for a clock that counts seconds
Strftime(now) == ToString(now)

\* f"{ticker}_{period}_{interval}_{timestamp}.csv"
FormatFilename(ticker, period, interval, timestamp) ==
    <<ticker \o <<"_", period, "_", interval, "_", timestamp, ".csv">>>>

(***************************************************************************)
(* The inputs the calls are tried on.                                      *)
(***************************************************************************)
TickerSamples == {<<>>, <<" ", "a">>, <<"A">>}

PeriodSamples == {"1mo", "1y"}

IntervalSamples == {"1d"}

NoFilename == [kind |-> "none"]

Filename(f) == [kind |-> "name", name |-> f]

FilenameSamples ==
    {<<>>,
     <<Name("out.csv")>>,
     <<Dot, Name("out.csv")>>,
     <<Name("sub"), Name("out.csv")>>,
     <<Root, Name("work"), Name("out.csv")>>}

SampleRows == {r \in RawRows : r.idx \in {1, NaN} /\ r.cells["Close"] = 1}

TableSamples ==
    {t \in RawTables : /\ t.index_name \in {"Date", NoName}
                       /\ Len(t.rows) <= 1
                       /\ Range(t.rows) \subseteq SampleRows}

OutcomeSamples == TableSamples \cup {ProviderError}

FrameSamples ==
    {None} \cup {process_dataframe(t) : t \in {u \in TableSamples : u.index_name = "Date"}}

ConfigSamples ==
    {c \in {DownloadConfig(t, p, i, TRUE) :
                t \in TickerSamples, p \in PeriodSamples, i \in IntervalSamples} :
        c.kind = "config"}

(***************************************************************************)
(* The state: where the caller is (pc), the call being served and its      *)
(* locals, the file system, the downloader's default_output_dir, the clock *)
(* and, for the call being served: the file system when it began, the      *)
(* provider calls it has made and the path it handed to to_csv.            *)
(***************************************************************************)
VARIABLES pc, call, config, raw, data, save_args, result, fs, fs_at_call,
          default_output_dir, clock, provider_calls, written

vars == <<pc, call, config, raw, data, save_args, result, fs, fs_at_call,
          default_output_dir, clock, provider_calls, written>>

Pending == [kind |-> "pending"]

NoCall == [op |-> "none"]

NoConfig == [kind |-> "none"]

NoArgs == [kind |-> "none"]

\* CandlestickDownloader.__init__: Path(default_output_dir) if given, else
\* Path.cwd(); the directory is created
output_dir(given) == IF given.kind = "none" THEN Cwd ELSE Path(given.name)

Init ==
    /\ pc = "idle"
    /\ call = NoCall
    /\ config = NoConfig
    /\ raw = Pending
    /\ data = Pending
    /\ save_args = NoArgs
    /\ result = Pending
    /\ \E given \in {NoFilename, Filename(<<Name("data")>>)} :
          default_output_dir = output_dir(given)
    /\ \E files \in {{}, {Cwd \o <<Name("sub")>>}} :
          fs = [dirs |-> Prefixes(Cwd) \cup Prefixes(Abs(default_output_dir)),
                files |-> files]
    /\ fs_at_call = fs
    /\ clock = 0
    /\ provider_calls = 0
    /\ written = NoPath

\* a call begins: its locals are fresh
Begin(c) ==
    /\ pc = "idle"
    /\ call' = c
    /\ raw' = Pending
    /\ data' = Pending
    /\ fs_at_call' = fs
    /\ provider_calls' = 0
    /\ written' = NoPath
    /\ UNCHANGED <<fs, default_output_dir>>

\* DownloadConfig(ticker=..., ...) built by the caller
NewConfig(tickers, periods, intervals, flags) ==
    /\ pc = "idle"
    /\ \E t \in tickers, p \in periods, i \in intervals, a \in flags :
          /\ Begin([op |-> "DownloadConfig", ticker |-> t])
          /\ result' = DownloadConfig(t, p, i, a)
    /\ config' = NoConfig
    /\ pc' = "done"
    /\ UNCHANGED <<clock, save_args>>

\* download / download_and_save up to the call of download_with_config:
\* the configuration is built, and its ValueError propagates
BuildConfig(c) ==
    LET made == DownloadConfig(c.ticker, c.period, c.interval, TRUE) IN
    /\ Begin(c)
    /\ save_args' = NoArgs
    /\ IF made.kind = "raise"
       THEN /\ result' = made
            /\ config' = NoConfig
            /\ pc' = "done"
       ELSE /\ result' = Pending
            /\ config' = made
            /\ pc' = "download_with_config"

\* CandlestickDownloader.download(ticker, period, interval)
Download(tickers, periods, intervals) ==
    /\ pc = "idle"
    /\ \E t \in tickers, p \in periods, i \in intervals :
          BuildConfig([op |-> "download", ticker |-> t, period |-> p,
                       interval |-> i, filename |-> NoFilename])
    /\ UNCHANGED clock

\* CandlestickDownloader.download_with_config(config), called directly
DownloadWithConfig(configs) ==
    /\ pc = "idle"
    /\ Begin([op |-> "download_with_config"])
    /\ \E c \in configs : config' = c
    /\ result' = Pending
    /\ pc' = "download_with_config"
    /\ UNCHANGED <<clock, save_args>>

\* CandlestickDownloader.download_and_save(ticker, filename, period, interval)
DownloadAndSave(tickers, filenames, periods, intervals) ==
    /\ pc = "idle"
    /\ clock < MaxCalls
    /\ clock' = clock + 1
    /\ \E t \in tickers, f \in filenames, p \in periods, i \in intervals :
          BuildConfig([op |-> "download_and_save", ticker |-> t, period |-> p,
                       interval |-> i, filename |-> f])

\* yf.download(...): the provider answers with a table or raises
YfDownload(outcomes) ==
    /\ pc = "download_with_config"
    /\ \E o \in outcomes : raw' = o
    /\ provider_calls' = provider_calls + 1
    /\ pc' = "fetched"
    /\ UNCHANGED <<call, config, data, save_args, result, fs, fs_at_call,
                   default_output_dir, clock, written>>

FinishDownload_Retry ==
    LET r == download_result(raw) IN
    /\ pc = "fetched"
    /\ IF r.kind = "none" /\ provider_calls < 2
       THEN /\ pc' = "download_with_config"
            /\ raw' = Pending
            /\ UNCHANGED <<data, result>>
       ELSE IF call.op = "download_and_save" /\ r.kind # "raise"
       THEN /\ data' = r
            /\ pc' = "download_and_save"
            /\ UNCHANGED <<raw, result>>
       ELSE /\ result' = r
            /\ pc' = "done"
            /\ UNCHANGED <<raw, data>>
    /\ UNCHANGED <<call, config, save_args, fs, fs_at_call,
                   default_output_dir, clock, provider_calls, written>>

\* download_with_config after the provider's answer, and the return of
\* download to its caller
FinishDownload ==
    LET r == download_result(raw) IN
    /\ pc = "fetched"
    /\ IF call.op = "download_and_save" /\ r.kind # "raise"
       THEN /\ data' = r
            /\ pc' = "download_and_save"
            /\ UNCHANGED result
       ELSE /\ result' = r
            /\ pc' = "done"
            /\ UNCHANGED data
    /\ UNCHANGED <<call, config, raw, save_args, fs, fs_at_call,
                   default_output_dir, clock, provider_calls, written>>

\* the file name download_and_save saves under
save_filename(c, now) ==
    IF c.filename.kind = "none"
    THEN FormatFilename(c.ticker, c.period, c.interval, Strftime(now))
    ELSE c.filename.name

DownloadAndSaveStep_NoCheck ==
    /\ pc = "download_and_save"
    /\ save_args' = [kind |-> "args", dataframe |-> data,
                     filename |-> save_filename(call, clock),
                     create_dir |-> TRUE]
    /\ pc' = "save_to_csv"
    /\ UNCHANGED <<call, config, raw, data, result, fs, fs_at_call,
                   default_output_dir, clock, provider_calls, written>>

\* download_and_save after download has returned
DownloadAndSaveStep ==
    /\ pc = "download_and_save"
    /\ IF data.kind = "none"
       THEN /\ result' = Bool(FALSE)
            /\ pc' = "done"
            /\ UNCHANGED save_args
       ELSE /\ save_args' = [kind |-> "args", dataframe |-> data,
                             filename |-> save_filename(call, clock),
                             create_dir |-> TRUE]
            /\ pc' = "save_to_csv"
            /\ UNCHANGED result
    /\ UNCHANGED <<call, config, raw, data, fs, fs_at_call, default_output_dir,
                   clock, provider_calls, written>>

\* CandlestickDownloader.save_to_csv(dataframe, filename, create_dir), called
\* directly
SaveToCsvCall(frames, filenames, flags) ==
    /\ pc = "idle"
    /\ clock < MaxCalls
    /\ clock' = clock + 1
    /\ Begin([op |-> "save_to_csv"])
    /\ \E d \in frames, f \in filenames, c \in flags :
          save_args' = [kind |-> "args", dataframe |-> d, filename |-> f,
                        create_dir |-> c]
    /\ config' = NoConfig
    /\ result' = Pending
    /\ pc' = "save_to_csv"

\* the body of save_to_csv
SaveToCsv(ios) ==
    /\ pc = "save_to_csv"
    /\ \E io \in ios :
          LET r == save_to_csv(fs, default_output_dir, save_args.dataframe,
                               save_args.filename, save_args.create_dir, io) IN
          /\ result' = r.result
          /\ fs' = r.fs
          /\ written' = r.written
    /\ pc' = "done"
    /\ UNCHANGED <<call, config, raw, data, save_args, fs_at_call,
                   default_output_dir, clock, provider_calls>>

\* the caller has the result (or the exception); the locals are gone
Return ==
    /\ pc = "done"
    /\ pc' = "idle"
    /\ call' = NoCall
    /\ config' = NoConfig
    /\ raw' = Pending
    /\ data' = Pending
    /\ save_args' = NoArgs
    /\ result' = Pending
    /\ fs_at_call' = fs
    /\ provider_calls' = 0
    /\ written' = NoPath
    /\ UNCHANGED <<fs, default_output_dir, clock>>

Next ==
    \/ NewConfig(TickerSamples, PeriodSamples, IntervalSamples, {TRUE})
    \/ Download(TickerSamples, PeriodSamples, IntervalSamples)
    \/ DownloadWithConfig(ConfigSamples)
    \/ DownloadAndSave(TickerSamples,
                       {NoFilename} \cup {Filename(f) : f \in FilenameSamples},
                       PeriodSamples, IntervalSamples)
    \/ SaveToCsvCall(FrameSamples, FilenameSamples, BOOLEAN)
    \/ YfDownload(OutcomeSamples)
    \/ FinishDownload
    \/ DownloadAndSaveStep
    \/ SaveToCsv(IoOutcomes)
    \/ Return

Spec == Init /\ [][Next]_vars

\* the configuration alone, on every ticker up to MaxTickerLen
NextConfig ==
    \/ NewConfig(Tickers, Periods, Intervals, BOOLEAN)
    \/ Return

SpecConfig == Init /\ [][NextConfig]_vars

\* download and download_with_config on every provider answer up to MaxRows
NextDownload ==
    \/ Download(TickerSamples, PeriodSamples, IntervalSamples)
    \/ DownloadWithConfig(ConfigSamples)
    \/ YfDownload(ProviderOutcomes)
    \/ FinishDownload
    \/ Return

SpecDownload == Init /\ [][NextDownload]_vars

(***************************************************************************)
(* The claims.                                                             *)
(***************************************************************************)
DownloadReturned == pc = "done" /\ call.op \in {"download", "download_with_config"}

\* core is t without its leading and trailing spaces
IsTrimOf(core, t) ==
    \E i \in 0..Len(t), j \in 0..Len(t) :
        /\ i + Len(core) + j = Len(t)
        /\ \A k \in 1..i : t[k] = " "
        /\ \A k \in (Len(t) - j + 1)..Len(t) : t[k] = " "
        /\ core = SubSeq(t, i + 1, Len(t) - j)
        /\ core # <<>> => core[1] # " " /\ core[Len(core)] # " "

IsUpperOf(u, s) ==
    /\ Len(u) = Len(s)
    /\ \A k \in 1..Len(s) : u[k] = (IF s[k] = "a" THEN "A" ELSE s[k])

AllSpaces(t) == \A k \in 1..Len(t) : t[k] = " "

\* C1: constructing a DownloadConfig succeeds exactly when the ticker has a
\* character other than whitespace; the stored ticker is then the trimmed
\* input in upper case, and otherwise construction raises ValueError
\* 'Ticker symbol cannot be empty'.
C1_ConfigValidation ==
    (pc = "done" /\ call.op = "DownloadConfig") =>
        /\ result.kind \in {"config", "raise"}
        /\ result.kind = "config" <=> ~AllSpaces(call.ticker)
        /\ result.kind = "config" =>
              \E core \in Tickers : /\ IsTrimOf(core, call.ticker)
                                    /\ IsUpperOf(result.ticker, core)
        /\ result.kind = "raise" =>
              /\ result.error = "ValueError"
              /\ result.message = "Ticker symbol cannot be empty"

C1_Witness ==
    /\ pc = "done"
    /\ call.op = "DownloadConfig"
    /\ call.ticker = <<" ", "a", " ">>
    /\ result.kind = "config"
    /\ result.ticker = <<"A">>

\* C2: download and download_with_config return a table or None: an empty
\* provider response gives None, a raised provider error gives None, and the
\* only exception that reaches the caller is the ValueError of download for
\* an empty ticker, raised before the provider is called.
C2_DownloadFailSoft ==
    DownloadReturned =>
        /\ \/ result.kind \in {"table", "none"}
           \/ /\ result.kind = "raise"
              /\ result.error = "ValueError"
              /\ call.op = "download"
              /\ AllSpaces(call.ticker)
              /\ provider_calls = 0
        /\ raw.kind = "raise" => result = None
        /\ (raw.kind = "table" /\ Len(raw.rows) = 0) => result = None

C2_Witness ==
    /\ DownloadReturned
    /\ raw.kind = "raise"
    /\ result = None

\* the rows of the provider's table that have no missing value, index included
Complete(row) == row.idx # NaN /\ \A c \in DOMAIN row.cells : row.cells[c] # NaN

NumComplete(rows) == Cardinality({i \in 1..Len(rows) : Complete(rows[i])})

\* how many times the date d is the index of a complete row
CountDate(rows, d) == Cardinality({i \in 1..Len(rows) : Complete(rows[i]) /\ rows[i].idx = d})

CountResultDate(rows, d) == Cardinality({i \in 1..Len(rows) : rows[i].cells["Date"] = d})

NonDecreasing(rows) ==
    \A i \in 1..(Len(rows) - 1) : rows[i].cells["Date"] <= rows[i + 1].cells["Date"]

StrictlyAscending(rows) ==
    \A i \in 1..(Len(rows) - 1) : rows[i].cells["Date"] < rows[i + 1].cells["Date"]

NonEmptyResponse == raw.kind = "table" /\ Len(raw.rows) > 0

\* C3 (as claimed): for a non-empty provider response of N rows, M of them
\* with a missing value, download returns a table of exactly the N-M rows
\* without missing values, in ascending Date order, indexed 0..N-M-1 (an
\* empty table when M = N).
C3_AsClaimed ==
    (DownloadReturned /\ NonEmptyResponse) =>
        /\ result.kind = "table"
        /\ Len(result.rows) = NumComplete(raw.rows)
        /\ \A d \in Dates : CountResultDate(result.rows, d) = CountDate(raw.rows, d)
        /\ \A i \in 1..Len(result.rows) : ~HasNaN(result.rows[i])
        /\ NonDecreasing(result.rows)
        /\ \A i \in 1..Len(result.rows) : result.rows[i].label = i - 1

\* C4 (as claimed): the rows of every table download returns are strictly
\* ordered by ascending Date.
C4_AsClaimed ==
    (DownloadReturned /\ result.kind = "table") => StrictlyAscending(result.rows)

\* C4 (amended): the rows of every table download returns are ordered by
\* non-decreasing Date, and strictly ascending when no timestamp occurs twice
\* among the response's rows without missing values.
C4_SortedByDate ==
    (DownloadReturned /\ result.kind = "table") =>
        /\ NonDecreasing(result.rows)
        /\ (\A d \in Dates : CountDate(raw.rows, d) <= 1) => StrictlyAscending(result.rows)

C4_Witness ==
    /\ DownloadReturned
    /\ result.kind = "table"
    /\ Len(raw.rows) = 3
    /\ raw.rows[1].idx = 2 /\ raw.rows[2].idx = 1 /\ raw.rows[3].idx = 2
    /\ Len(result.rows) = 3
    /\ result.rows[1].cells["Date"] = 1
    /\ result.rows[2].cells["Date"] = 2
    /\ result.rows[3].cells["Date"] = 2

\* C5 (as claimed): for every non-empty raw provider table, whatever the
\* name of its time index, download returns a table whose leading column is
\* named "Date" and holds the index values.
C5_AsClaimed ==
    (DownloadReturned /\ NonEmptyResponse) =>
        /\ result.kind = "table"
        /\ result.columns[1] = "Date"
        /\ \A d \in Dates : CountResultDate(result.rows, d) = CountDate(raw.rows, d)

SaveReturned == pc = "done" /\ save_args.kind = "args"

NothingToSave(df) == df.kind = "none" \/ Len(df.rows) = 0

SubOutCsv == <<Name("sub"), Name("out.csv")>>

\* C6: save_to_csv on None or on a table without rows returns False and
\* leaves the file system as it was: no file written, no directory created,
\* whatever the filename and create_dir.
C6_NothingSaved ==
    (SaveReturned /\ NothingToSave(save_args.dataframe)) =>
        /\ result = Bool(FALSE)
        /\ fs = fs_at_call
        /\ written = NoPath

C6_Witness ==
    /\ SaveReturned
    /\ call.op = "save_to_csv"
    /\ save_args.dataframe.kind = "table"
    /\ Len(save_args.dataframe.rows) = 0
    /\ save_args.create_dir
    /\ save_args.filename = SubOutCsv
    /\ Cwd \o <<Name("sub")>> \notin fs.dirs \cup fs.files
    /\ result = Bool(FALSE)

\* the components of a file name other than "."
NotDot(c) == c # Dot

Components(f) == SelectSeq(f, NotDot)

\* C7: when save_to_csv succeeds, the file is at default_output_dir/filename
\* if the filename has no directory component, and at exactly the supplied
\* path, the default output directory not prepended, if it has one.
C7_PathResolution ==
    (SaveReturned /\ result = Bool(TRUE)) =>
        /\ written.kind = "path"
        /\ Abs(written.path) \in fs.files
        /\ Len(Components(save_args.filename)) <= 1 =>
              written.path = default_output_dir \o Components(save_args.filename)
        /\ Len(Components(save_args.filename)) > 1 =>
              written.path = Components(save_args.filename)

C7_Witness ==
    /\ SaveReturned
    /\ result = Bool(TRUE)
    /\ save_args.filename = SubOutCsv
    /\ default_output_dir = <<Name("data")>>
    /\ written.kind = "path"
    /\ written.path = SubOutCsv
    /\ Cwd \o SubOutCsv \in fs.files

\* C8: save_to_csv never raises: an error in resolving the path, creating
\* the parent directory or writing the file (a missing parent directory with
\* create_dir false among them) comes back as False, and True is returned
\* only if the write completed.
C8_SaveNeverRaises ==
    SaveReturned =>
        /\ result.kind = "bool"
        /\ result.value => /\ written.kind = "path"
                           /\ written.complete
                           /\ Abs(written.path) \in fs.files
        /\ ( /\ ~save_args.create_dir
             /\ Len(Components(save_args.filename)) > 1
             /\ Parent(Abs(Components(save_args.filename))) \notin fs_at_call.dirs )
           => result = Bool(FALSE)

C8_Witness ==
    /\ SaveReturned
    /\ save_args.dataframe.kind = "table"
    /\ Len(save_args.dataframe.rows) > 0
    /\ ~save_args.create_dir
    /\ save_args.filename = SubOutCsv
    /\ Cwd \o <<Name("sub")>> \notin fs_at_call.dirs
    /\ result = Bool(FALSE)
    /\ fs = fs_at_call

\* C9: download_and_save returns True only if its download returned a table
\* and the write succeeded; when the download gives None it returns False
\* without invoking save_to_csv, no file or directory created; and
\* save_to_csv is not entered before the download has returned.
C9_DownloadThenSave ==
    call.op = "download_and_save" =>
        /\ (pc = "done" /\ result = Bool(TRUE)) =>
              /\ data.kind = "table"
              /\ written.kind = "path"
              /\ written.complete
        /\ (pc = "done" /\ data.kind = "none") =>
              /\ result = Bool(FALSE)
              /\ save_args = NoArgs
              /\ written = NoPath
              /\ fs = fs_at_call
        /\ (save_args # NoArgs \/ written # NoPath \/ fs # fs_at_call) =>
              /\ provider_calls > 0
              /\ data.kind = "table"

C9_Witness ==
    /\ call.op = "download_and_save"
    /\ pc = "done"
    /\ raw.kind = "table"
    /\ data.kind = "none"
    /\ result = Bool(FALSE)
    /\ save_args = NoArgs

\* C10 (as claimed): download_and_save without a filename, when it succeeds,
\* writes default_output_dir/{TICKER}_{period}_{interval}_{timestamp}.csv
\* with TICKER the trimmed, upper-case ticker of the request.
C10_AsClaimed ==
    ( /\ call.op = "download_and_save"
      /\ pc = "done"
      /\ call.filename = NoFilename
      /\ result = Bool(TRUE) ) =>
        /\ written.kind = "path"
        /\ \E core, upper \in Tickers :
              /\ IsTrimOf(core, call.ticker)
              /\ IsUpperOf(upper, core)
              /\ written.path =
                    default_output_dir \o
                    <<upper \o <<"_", call.period, "_", call.interval, "_",
                                ToString(clock), ".csv">>>>

DownloadCall == call.op \in {"download", "download_with_config"} /\ config # NoConfig

\* the provider has been called exactly once by the time it has answered,
\* and not at all before
OneCallPerDownload ==
    DownloadCall =>
        /\ pc = "download_with_config" => provider_calls = 0
        /\ pc \in {"fetched", "done"} => provider_calls = 1

\* C11: a download (or download_with_config) with a valid configuration
\* calls the provider exactly once, whatever the outcome: the call is made
\* only where download_with_config has not yet called, a failed or empty
\* attempt is not retried, and no call follows the return of the result.
C11_SingleProviderCall ==
    /\ []OneCallPerDownload
    /\ [][provider_calls' > provider_calls =>
             /\ pc = "download_with_config"
             /\ provider_calls = 0
             /\ provider_calls' = 1]_vars
    /\ [][(DownloadCall /\ pc \in {"fetched", "done"}) =>
             (pc' # "download_with_config" /\ provider_calls' <= provider_calls)]_vars

C11_Witness ==
    /\ DownloadReturned
    /\ config # NoConfig
    /\ raw.kind = "table"
    /\ Len(raw.rows) = 0
    /\ result = None
    /\ provider_calls = 1

====
